---- MODULE Spec2Model ----
(***************************************************************************)
(* Model of the openmeteogo client: the Options builder, the Client, the   *)
(* request-URL construction (Client.url), Metrics.encode, Client.Get with   *)
(* the decoding of the response, NewMetrics and DescribeCode.               *)
(*                                                                         *)
(* Strings are TLA+ strings (concatenated with \o, indexed with SubSeq).   *)
(* Times are whole hours since an epoch; the zero time.Time is ZeroTime.   *)
(* A Metrics value is a record [nil, m]: Go distinguishes a nil slice from *)
(* an empty one, and url tests for nil before it encodes.                  *)
(***************************************************************************)
EXTENDS Integers, Sequences, FiniteSets, TLC

VARIABLES
    client,       \* the *Client in use
    options,      \* the Options the builder points to (b.options)
    called,       \* names of the builder setters called so far (history)
    setterCalls,  \* number of setter calls made on the builder
    now,          \* the wall clock read by time.Since
    lastCall,     \* the latest Client.url call: its inputs and its result
    encIn,        \* input of the latest Metrics.encode call
    encOut,       \* [done, s]: result of that call
    passed,       \* per Options field, the last value passed to its setter (history)
    get,          \* per caller, the Get call it is in or has last made
    dc,           \* the latest DescribeCode call: [done, code, s]
    nm,           \* the latest NewMetrics call: [done, kind, in, out, err]
    prevCall,     \* the Client.url call before the latest one
    built         \* the Options that an earlier Build call returned

vars == <<client, options, called, setterCalls, now, lastCall, encIn, encOut,
          passed, get, dc, nm, prevCall, built>>

----------------------------------------------------------------------------
(* Bounds of the model *)

MaxSetterCalls == 2
MaxTicks == 1
NowInit == 3000
MaxMetrics == 3

----------------------------------------------------------------------------
(* Constants of the program *)

defaultHost == "api.open-meteo.com"
defaultScheme == "https"
seasonalHost == "seasonal-api.open-meteo.com"
marineHost == "marine-api.open-meteo.com"
DefaultUserAgent == "OpenMeteoGo-Client"

HoursPerDay == 24
forecastHistoryLimit == 90 * HoursPerDay

ZeroTime == 0
IsZero(t) == t = ZeroTime

\* TemperatureUnit, WindSpeedUnit, PrecipitationUnit: int64 enumerations (iota)
Celsius == 0
Fahrenheit == 1
KMH == 0
MS == 1
MPH == 2
KN == 3
MM == 0
\* IN in the source; IN is a reserved word of TLA+
INCH == 1

TemperatureUnitString(t) ==
    CASE t = Celsius -> "celsius"
      [] t = Fahrenheit -> "fahrenheit"
      [] OTHER -> "unknown"

WindSpeedUnitString(w) ==
    CASE w = KMH -> "kmh"
      [] w = MS -> "ms"
      [] w = MPH -> "mph"
      [] w = KN -> "kn"
      [] OTHER -> "unknown"

PrecipitationUnitString(p) ==
    CASE p = MM -> "mm"
      [] p = INCH -> "in"
      [] OTHER -> "unknown"

----------------------------------------------------------------------------
(* Metrics *)

NilMetrics == [nil |-> TRUE, m |-> <<>>]
MakeMetrics(s) == [nil |-> FALSE, m |-> s]

\* strings.Join(sl, sep)
RECURSIVE Join(_, _)
Join(sl, sep) ==
    IF Len(sl) = 0 THEN ""
    ELSE IF Len(sl) = 1 THEN sl[1]
    ELSE sl[1] \o sep \o Join(Tail(sl), sep)

\* mutant of encode: a name that occurs again is dropped
RECURSIVE Dedup(_)
Dedup(sl) ==
    IF Len(sl) = 0 THEN <<>>
    ELSE LET front == Dedup(SubSeq(sl, 1, Len(sl) - 1))
         IN  IF \E i \in 1..Len(front) : front[i] = sl[Len(sl)]
             THEN front ELSE Append(front, sl[Len(sl)])

encode_Dedup(metrics) == Join(Dedup(metrics.m), ",")

\* Metrics.encode: the metric names, in slice order, joined by commas
encode(metrics) == Join([i \in 1..Len(metrics.m) |-> metrics.m[i]], ",")

----------------------------------------------------------------------------
(* Formatting *)

Digits == "0123456789"

RECURSIVE FormatNat(_)
FormatNat(n) ==
    IF n < 10 THEN SubSeq(Digits, n + 1, n + 1)
    ELSE FormatNat(n \div 10) \o SubSeq(Digits, (n % 10) + 1, (n % 10) + 1)

\* fmt.Sprintf("%v", x) for an integer, or a float64 holding a whole number
Sprintf(x) == IF x < 0 THEN "-" \o FormatNat(0 - x) ELSE FormatNat(x)

\* Time.Format("2006-01-02"): the time cut down to its day; the calendar
\* rendering of the day is abstracted to the day's ordinal
FormatDate(t) == Sprintf(t \div HoursPerDay)

\* url.QueryEscape over the characters the client writes: letters, digits,
\* '_', '-' and '.' are kept, ',' becomes %2C
RECURSIVE QueryEscape(_)
QueryEscape(s) ==
    IF Len(s) = 0 THEN ""
    ELSE LET ch == SubSeq(s, 1, 1)
         IN  (IF ch = "," THEN "%2C" ELSE ch) \o QueryEscape(SubSeq(s, 2, Len(s)))

----------------------------------------------------------------------------
(* url.Values *)

EmptyValues == [k \in {} |-> ""]

\* Values.Set: one value per key, a later Set replaces an earlier one
Set(q, k, v) == [x \in (DOMAIN q) \cup {k} |-> IF x = k THEN v ELSE q[x]]

\* mutant of KeyOrder: the keys in the order Client.url sets them
KeyOrder_AsWritten ==
    << "apikey", "latitude", "longitude", "temperature_unit", "windspeed_unit",
       "precipitation_unit", "timezone", "past_days", "start_date", "end_date",
       "hourly", "daily", "forecast_days", "current", "models", "weekly",
       "monthly" >>

\* the keys the client writes, in the byte order sort.Strings puts them in
KeyOrder ==
    << "apikey", "current", "daily", "end_date", "forecast_days", "hourly",
       "latitude", "longitude", "models", "monthly", "past_days",
       "precipitation_unit", "start_date", "temperature_unit", "timezone",
       "weekly", "windspeed_unit" >>

\* mutant of Encode: the keys in descending order
Encode_Descending(q) ==
    LET keys == SelectSeq(KeyOrder, LAMBDA k : k \in DOMAIN q)
        n == Len(keys)
    IN  [i \in 1..n |-> <<keys[n + 1 - i], QueryEscape(q[keys[n + 1 - i]])>>]

\* Values.Encode: key=value pairs sorted by key, values query-escaped
Encode(q) ==
    LET keys == SelectSeq(KeyOrder, LAMBDA k : k \in DOMAIN q)
    IN  [i \in 1..Len(keys) |-> <<keys[i], QueryEscape(q[keys[i]])>>]

----------------------------------------------------------------------------
(* Client *)

\* NewClient: default settings, no API key
NewClient ==
    [apiKey |-> "", UserAgent |-> DefaultUserAgent,
     HTTPClient |-> "http.DefaultClient",
     scheme |-> defaultScheme, host |-> defaultHost]

\* NewClientWithKey: the same, with the commercial API key
NewClientWithKey(key) ==
    [apiKey |-> key, UserAgent |-> DefaultUserAgent,
     HTTPClient |-> "http.DefaultClient",
     scheme |-> defaultScheme, host |-> defaultHost]

ApiKeys == {"", "testkey", "k,1"}

----------------------------------------------------------------------------
(* Options and its builder *)

\* NewOptionsBuilder: &Options{}, every field at its zero value
ZeroOptions ==
    [Latitude |-> 0, Longitude |-> 0,
     TemperatureUnit |-> 0, WindspeedUnit |-> 0, PrecipitationUnit |-> 0,
     Timezone |-> "", PastDays |-> 0, ForcastDays |-> 0,
     Start |-> ZeroTime, End |-> ZeroTime, Models |-> <<>>,
     HourlyMetrics |-> NilMetrics, DailyMetrics |-> NilMetrics,
     WeeklyMetrics |-> NilMetrics, MonthlyMetrics |-> NilMetrics,
     CurrentMetrics |-> NilMetrics, Seasonal |-> FALSE, Marine |-> FALSE]

\* the values the setters are called with
Latitudes == {52}
Longitudes == {13}
TemperatureUnits == {Celsius, Fahrenheit}
WindSpeedUnits == {KMH, MS, MPH, KN}
PrecipitationUnits == {MM, INCH}
Timezones == {"UTC"}
DayCounts == {5}
StartOld == NowInit - forecastHistoryLimit - 1
StartEdge == NowInit - forecastHistoryLimit
StartRecent == NowInit - HoursPerDay
StartFuture == NowInit + HoursPerDay
StartTimes == {StartOld, StartEdge, StartRecent, StartFuture}
EndTimes == {NowInit}
ModelLists == { <<"ecmwf_seas5">>, <<"ecmwf_seas5", "cfs">> }
MetricLists ==
    { MakeMetrics(<<>>), MakeMetrics(<<"temperature_2m">>),
      MakeMetrics(<<"rain", "temperature_2m">>) }

\* a setter that starts from a fresh Options: the other fields are lost
SetField_ResetsOthers(f, v) ==
    /\ setterCalls < MaxSetterCalls
    /\ ~lastCall.done
    /\ options' = [ZeroOptions EXCEPT ![f] = v]
    /\ called' = called \cup {f}
    /\ setterCalls' = setterCalls + 1
    /\ passed' = [passed EXCEPT ![f] = v]
    /\ UNCHANGED <<client, now, lastCall, encIn, encOut, get, dc, nm,
                   prevCall, built>>

\* the body shared by every setter: one field assigned, the call recorded.
\* Options is built first and then passed to the request calls, so the
\* setters run until the first url call on the built Options
SetField(f, v) ==
    /\ setterCalls < MaxSetterCalls
    /\ ~lastCall.done
    /\ options' = [options EXCEPT ![f] = v]
    /\ called' = called \cup {f}
    /\ setterCalls' = setterCalls + 1
    /\ passed' = [passed EXCEPT ![f] = v]
    /\ UNCHANGED <<client, now, lastCall, encIn, encOut, get, dc, nm,
                   prevCall, built>>

\* Build: the Options the builder points to
Build == options

\* Build hands out a copy of the builder's Options
BuildRef_Copy(o) == [obj |-> "copy", v |-> o]

\* return b.options: the pointer the builder itself holds; v is what the
\* Options held when Build returned
BuildRef(o) == [obj |-> "b.options", v |-> o]

\* the Options a pointer returned by Build leads to now
Deref(ref) == IF ref.obj = "b.options" THEN options ELSE ref.v

\* b.Build(), up to two calls on the one builder
CallBuild ==
    /\ built.n < 2
    /\ built' = IF built.n = 0
                THEN [built EXCEPT !.n = 1, !.first = BuildRef(Build)]
                ELSE [built EXCEPT !.n = 2, !.second = BuildRef(Build)]
    /\ UNCHANGED <<client, options, called, setterCalls, now, lastCall, encIn,
                   encOut, passed, get, dc, nm, prevCall>>

Latitude == \E v \in Latitudes : SetField("Latitude", v)
Longitude == \E v \in Longitudes : SetField("Longitude", v)
TemperatureUnit == \E v \in TemperatureUnits : SetField("TemperatureUnit", v)
WindspeedUnit == \E v \in WindSpeedUnits : SetField("WindspeedUnit", v)
PrecipitationUnit == \E v \in PrecipitationUnits : SetField("PrecipitationUnit", v)
Timezone == \E v \in Timezones : SetField("Timezone", v)
PastDays == \E v \in DayCounts : SetField("PastDays", v)
ForcastDays == \E v \in DayCounts : SetField("ForcastDays", v)
Start == \E v \in StartTimes : SetField("Start", v)
End == \E v \in EndTimes : SetField("End", v)
Models == \E v \in ModelLists : SetField("Models", v)
HourlyMetrics == \E v \in MetricLists : SetField("HourlyMetrics", v)
DailyMetrics == \E v \in MetricLists : SetField("DailyMetrics", v)
WeeklyMetrics == \E v \in MetricLists : SetField("WeeklyMetrics", v)
MonthlyMetrics == \E v \in MetricLists : SetField("MonthlyMetrics", v)
CurrentMetrics == \E v \in MetricLists : SetField("CurrentMetrics", v)
Seasonal == SetField("Seasonal", TRUE)
Marine == SetField("Marine", TRUE)

----------------------------------------------------------------------------
(* Client.url *)

\* mutant of isHistorical: the zero start date is not told apart
isHistorical_ZeroStartIsOld(o, t) ==
    (t - o.Start) > forecastHistoryLimit

\* mutant of isHistorical: the comparison with the limit is not strict
isHistorical_NotStrict(o, t) ==
    ~IsZero(o.Start) /\ (t - o.Start) >= forecastHistoryLimit

\* mutant of isHistorical: historical only in the first hour past the limit
isHistorical_FirstHour(o, t) ==
    ~IsZero(o.Start) /\ (t - o.Start) = forecastHistoryLimit + 1

\* the request is for data older than the forecast API's history limit
isHistorical(o, t) ==
    ~IsZero(o.Start) /\ (t - o.Start) > forecastHistoryLimit

\* host and path of the forecast product line, switched to the archive
\* variant for a historical request
forecastHost(c, o, t) ==
    IF isHistorical(o, t) THEN "archive-" \o c.host ELSE c.host

\* mutant of forecastPath: the path stays on the forecast endpoint
forecastPath_NoArchive(o, t) == "/v1/forecast"

forecastPath(o, t) ==
    IF isHistorical(o, t) THEN "/v1/archive" ELSE "/v1/forecast"

\* mutant of isSeasonal: the flag alone selects the seasonal API
isSeasonal_FlagOnly(o) == o.Seasonal

\* mutant of isSeasonal: hourly metrics select the seasonal API too
isSeasonal_FromHourly(o) ==
    \/ o.Seasonal
    \/ Len(o.Models) > 0
    \/ Len(o.HourlyMetrics.m) > 0
    \/ Len(o.WeeklyMetrics.m) > 0
    \/ Len(o.MonthlyMetrics.m) > 0

\* the seasonal API is asked for by the flag, by models, or by weekly or
\* monthly metrics
isSeasonal(o) ==
    \/ o.Seasonal
    \/ Len(o.Models) > 0
    \/ Len(o.WeeklyMetrics.m) > 0
    \/ Len(o.MonthlyMetrics.m) > 0

\* mutant of productLine: seasonal is tested before marine
productLine_SeasonalFirst(o) ==
    IF isSeasonal(o) THEN "seasonal"
    ELSE IF o.Marine THEN "marine"
    ELSE "forecast"

\* the product line of a request: marine, then seasonal, then forecast/archive
productLine(o) ==
    IF o.Marine THEN "marine"
    ELSE IF isSeasonal(o) THEN "seasonal"
    ELSE "forecast"

\* mutant of selectHost: a historical request goes to the archive host first
selectHost_ArchiveFirst(c, o, t) ==
    IF isHistorical(o, t) THEN "archive-" \o c.host
    ELSE IF productLine(o) = "marine" THEN marineHost
    ELSE IF productLine(o) = "seasonal" THEN seasonalHost
    ELSE c.host

selectHost(c, o, t) ==
    CASE productLine(o) = "marine" -> marineHost
      [] productLine(o) = "seasonal" -> seasonalHost
      [] OTHER -> forecastHost(c, o, t)

selectPath(o, t) ==
    CASE productLine(o) = "marine" -> "/v1/marine"
      [] productLine(o) = "seasonal" -> "/v1/seasonal"
      [] OTHER -> forecastPath(o, t)

\* mutant of customerHost: the prefix is put on the plain forecast host only
customerHost_ForecastOnly(c, host) ==
    IF c.apiKey # "" /\ host = c.host THEN "customer-" \o host ELSE host

\* a commercial API key moves the request to the customer- host
customerHost(c, host) ==
    IF c.apiKey # "" THEN "customer-" \o host ELSE host

\* mutant of SetMetrics: every metric set that is not nil is written
SetMetrics_NotNil(q, key, metrics) ==
    IF ~metrics.nil THEN Set(q, key, encode(metrics)) ELSE q

\* q.Set(key, val) for a metric set that is not nil and encodes to a
\* non-empty string
SetMetrics(q, key, metrics) ==
    IF ~metrics.nil /\ encode(metrics) # ""
    THEN Set(q, key, encode(metrics))
    ELSE q

\* mutant of apiKeyQuery: the key is never written
apiKeyQuery_Missing(c) == EmptyValues

\* the key is passed as the apikey query parameter
apiKeyQuery(c) ==
    IF c.apiKey # "" THEN Set(EmptyValues, "apikey", c.apiKey) ELSE EmptyValues

\* the query of a forecast/archive request, in the order url writes it
commonQuery(c, o) ==
    LET q0  == apiKeyQuery(c)
        q1  == Set(q0, "latitude", Sprintf(o.Latitude))
        q2  == Set(q1, "longitude", Sprintf(o.Longitude))
        q3  == IF o.TemperatureUnit > 0
               THEN Set(q2, "temperature_unit",
                        TemperatureUnitString(o.TemperatureUnit))
               ELSE q2
        q4  == IF o.WindspeedUnit > 0
               THEN Set(q3, "windspeed_unit",
                        WindSpeedUnitString(o.WindspeedUnit))
               ELSE q3
        q5  == IF o.PrecipitationUnit > 0
               THEN Set(q4, "precipitation_unit",
                        PrecipitationUnitString(o.PrecipitationUnit))
               ELSE q4
        q6  == IF o.Timezone # "" THEN Set(q5, "timezone", o.Timezone) ELSE q5
        q7  == IF o.PastDays > 0
               THEN Set(q6, "past_days", Sprintf(o.PastDays)) ELSE q6
        q8  == IF ~IsZero(o.Start)
               THEN Set(q7, "start_date", FormatDate(o.Start)) ELSE q7
        q9  == IF ~IsZero(o.End)
               THEN Set(q8, "end_date", FormatDate(o.End)) ELSE q8
        q10 == SetMetrics(q9, "hourly", o.HourlyMetrics)
        q11 == SetMetrics(q10, "daily", o.DailyMetrics)
        q12 == IF o.ForcastDays > 0
               THEN Set(q11, "forecast_days", Sprintf(o.ForcastDays)) ELSE q11
    IN  SetMetrics(q12, "current", o.CurrentMetrics)

\* the keys of the seasonal API: models, weekly, monthly
seasonalQuery(q, o) ==
    LET q1 == IF Len(o.Models) > 0
              THEN Set(q, "models", Join(o.Models, ",")) ELSE q
        q2 == SetMetrics(q1, "weekly", o.WeeklyMetrics)
    IN  SetMetrics(q2, "monthly", o.MonthlyMetrics)

\* mutant of url: the time of the call is written into the query
url_StampsTime(c, o, t) ==
    [Scheme   |-> c.scheme,
     Host     |-> customerHost(c, selectHost(c, o, t)),
     Path     |-> selectPath(o, t),
     RawQuery |-> Append(Encode(seasonalQuery(commonQuery(c, o), o)),
                         <<"time", Sprintf(t)>>)]

\* Client.url: the URL of the request for o, built at time t.  The result is
\* kept in its parts (url.URL); RawQuery is the sequence of key=value pairs
url(c, o, t) ==
    [Scheme   |-> c.scheme,
     Host     |-> customerHost(c, selectHost(c, o, t)),
     Path     |-> selectPath(o, t),
     RawQuery |-> Encode(seasonalQuery(commonQuery(c, o), o))]

----------------------------------------------------------------------------
(* Responses and their decoding into WeatherData *)

\* http.StatusOK
StatusOK == 200

\* the status codes the server of the model answers with
Statuses == {StatusOK, 201, 404}

\* the intervals of WeatherData that hold arrays
Intervals == {"hourly", "daily", "weekly", "monthly"}

\* the metric names the response bodies of the model carry
BodyMetrics ==
    {"temperature_2m", "relative_humidity_2m", "weather_code", "wave_height",
     "temperature_2m_max", "temperature_2m_mean", "uv_index"}

\* element type of the Hourly slice with that json tag ("none": no such field)
HourlyType(metric) ==
    CASE metric = "temperature_2m" -> "float64"
      [] metric \in {"relative_humidity_2m", "weather_code"} -> "int"
      [] OTHER -> "none"

\* the marine fields of Hourly
MarineHourlyType(metric) ==
    IF metric = "wave_height" THEN "float64" ELSE "none"

\* element type of the Daily slice with that json tag
DailyType(metric) ==
    CASE metric = "temperature_2m_max" -> "float64"
      [] metric = "weather_code" -> "int"
      [] OTHER -> "none"

\* element type of the Weekly and of the Monthly slice with that json tag
SeasonalType(metric) ==
    IF metric = "temperature_2m_mean" THEN "float64" ELSE "none"

FieldType(interval, metric) ==
    CASE interval = "hourly" ->
             IF HourlyType(metric) # "none" THEN HourlyType(metric)
             ELSE MarineHourlyType(metric)
      [] interval = "daily" -> DailyType(metric)
      [] interval \in {"weekly", "monthly"} -> SeasonalType(metric)
      [] OTHER -> "none"

\* json tags of the slices the interval's struct declares
Fields(interval) == {m \in BodyMetrics : FieldType(interval, m) # "none"}

\* A JSON number is kept in tenths (105 is 10.5), so a Go int holds only the
\* multiples of ten.
IsInteger(x) == x % 10 = 0

\* var wd WeatherData: every slice nil, every unit string empty
ZeroWeatherData ==
    [Data  |-> [i \in Intervals |->
                  [Time |-> <<>>, Values |-> [m \in Fields(i) |-> <<>>]]],
     Units |-> [i \in Intervals |-> [m \in Fields(i) |-> ""]]]

\* A response body: either not JSON at all, or a JSON object that holds for
\* one interval a time array, one metric array and the metric's *_units entry.
NotJSON ==
    [wellFormed |-> FALSE, interval |-> "", metric |-> "", unit |-> "",
     time |-> <<>>, values |-> <<>>]

JSONBody(interval, metric, unit, time, values) ==
    [wellFormed |-> TRUE, interval |-> interval, metric |-> metric,
     unit |-> unit, time |-> time, values |-> values]

Bodies ==
    { NotJSON,
      JSONBody("hourly", "wave_height", "m", <<"2025-01-01T00:00">>, <<25>>),
      JSONBody("hourly", "relative_humidity_2m", "%",
               <<"2025-01-01T00:00", "2025-01-01T01:00">>, <<550, 555>>),
      JSONBody("daily", "weather_code", "wmo code",
               <<"2025-01-01", "2025-01-02">>, <<30, 610>>),
      JSONBody("weekly", "temperature_2m_mean", "C",
               <<"2025-01-01", "2025-01-08">>, <<105, 120>>),
      JSONBody("monthly", "temperature_2m_mean", "C", <<"2025-01-01">>, <<110>>),
      JSONBody("hourly", "uv_index", "", <<"2025-01-01T00:00">>, <<35>>) }

\* the elements of a JSON array as the slice of the field's type receives
\* them: a number that does not fit leaves the element at zero
Elements(values, type) ==
    [k \in 1..Len(values) |->
        IF type = "int" /\ ~IsInteger(values[k]) THEN 0 ELSE values[k]]

\* the decoder keeps the first element only
decode_FirstElement(body) ==
    IF ~body.wellFormed \/ body.interval \notin Intervals
    THEN [ok |-> body.wellFormed, wd |-> ZeroWeatherData]
    ELSE [ok |-> TRUE,
          wd |-> [Data  |-> [ZeroWeatherData.Data EXCEPT ![body.interval] =
                                [Time |-> body.time,
                                 Values |-> [m \in Fields(body.interval) |->
                                     IF m = body.metric
                                     THEN SubSeq(body.values, 1, 1) ELSE <<>>]]],
                  Units |-> [ZeroWeatherData.Units EXCEPT ![body.interval] =
                                [m \in Fields(body.interval) |->
                                     IF m = body.metric THEN body.unit ELSE ""]]]]

\* json.NewDecoder(res.Body).Decode(&wd): [ok, wd]. A key without a struct
\* field is skipped; a number that does not fit its field is an error, and
\* so is a body that is not JSON. wd is what the decoder has filled by then.
decode(body) ==
    IF ~body.wellFormed \/ body.interval \notin Intervals
    THEN [ok |-> body.wellFormed, wd |-> ZeroWeatherData]
    ELSE LET i == body.interval
             type == FieldType(i, body.metric)
         IN  [ok |-> ~(type = "int" /\ \E k \in 1..Len(body.values) :
                                           ~IsInteger(body.values[k])),
              wd |-> [Data  |-> [ZeroWeatherData.Data EXCEPT ![i] =
                                    [Time |-> body.time,
                                     Values |-> [m \in Fields(i) |->
                                         IF m = body.metric
                                         THEN Elements(body.values, type)
                                         ELSE <<>>]]],
                      Units |-> [ZeroWeatherData.Units EXCEPT ![i] =
                                    [m \in Fields(i) |->
                                         IF m = body.metric THEN body.unit
                                         ELSE ""]]]]

----------------------------------------------------------------------------
(* Client.Get *)

\* the goroutines that call Get on the shared client
Callers == {"a", "b"}

\* each caller has its own Options
GetOptions ==
    [p \in Callers |->
        IF p = "a"
        THEN [ZeroOptions EXCEPT !.Latitude = 52, !.Longitude = 13]
        ELSE [ZeroOptions EXCEPT !.Latitude = 52, !.Longitude = 13,
                                 !.Marine = TRUE,
                                 !.HourlyMetrics = MakeMetrics(<<"wave_height">>)]]

\* the values a caller assigns to the exported field Client.UserAgent
UserAgents == {DefaultUserAgent, "my-app/1.0"}

\* a client as the package's tests make it: the private host overwritten,
\* here with a name no URL can hold
BrokenHostClient == [NewClient EXCEPT !.host = "bad host"]

GetClients == {NewClient, NewClientWithKey("testkey"), BrokenHostClient}

NoURL == [Scheme |-> "", Host |-> "", Path |-> "", RawQuery |-> <<>>]
NoRequest == [built |-> FALSE, Method |-> "", URL |-> NoURL, UserAgent |-> ""]
NoResponse == [failed |-> FALSE, StatusCode |-> 0, Body |-> NotJSON]
NilWeatherData == [nil |-> TRUE, v |-> ZeroWeatherData]

\* a caller that is not inside Get: nothing built, sent, read or returned
IdleGet ==
    [pc |-> "idle", c |-> NewClient, o |-> ZeroOptions, req |-> NoRequest,
     sent |-> 0, res |-> NoResponse, decoded |-> FALSE, closed |-> 0,
     wd |-> NilWeatherData, err |-> ""]

\* url.Parse inside http.NewRequest: a space cannot be part of a host
validURL(u) == \A i \in 1..Len(u.Host) : SubSeq(u.Host, i, i) # " "

\* http.NewRequest(method, url, nil)
NewRequest(method, u) ==
    IF validURL(u)
    THEN [built |-> TRUE, Method |-> method, URL |-> u, UserAgent |-> ""]
    ELSE NoRequest

\* the header always carries the library's default name
setUserAgent_Default(req, c) == [req EXCEPT !.UserAgent = DefaultUserAgent]

\* req.Header.Set("User-Agent", c.UserAgent)
setUserAgent(req, c) == [req EXCEPT !.UserAgent = c.UserAgent]

\* mutant of GetSend: the Options of the call are kept in a place the callers
\* share, so that a call reads the Options of a call that is in flight
GetSend_SharedOptions(p) ==
    /\ get[p].pc \in {"idle", "returned"}
    /\ LET busy == {q \in Callers \ {p} : get[q].pc \in {"sent", "answered"}}
           o == IF busy # {} THEN GetOptions[CHOOSE q \in busy : TRUE]
                ELSE GetOptions[p]
           req == NewRequest("GET", url(client, o, now))
           g == [IdleGet EXCEPT !.c = client, !.o = GetOptions[p]]
       IN  get' = [get EXCEPT ![p] =
                      IF ~req.built
                      THEN [g EXCEPT !.pc = "returned",
                                     !.err = "creating request"]
                      ELSE [g EXCEPT !.pc = "sent",
                                     !.req = setUserAgent(req, client),
                                     !.sent = @ + 1]]
    /\ UNCHANGED <<client, options, called, setterCalls, passed, now, lastCall,
                   encIn, encOut, dc, nm,
                   prevCall, built>>

\* Get up to the point where c.HTTPClient.Do has the request on the wire:
\* the request is built from c.url(o) and, unless that fails, sent
GetSend(p) ==
    /\ get[p].pc \in {"idle", "returned"}
    /\ LET o == GetOptions[p]
           req == NewRequest("GET", url(client, o, now))
           g == [IdleGet EXCEPT !.c = client, !.o = o]
       IN  get' = [get EXCEPT ![p] =
                      IF ~req.built
                      THEN [g EXCEPT !.pc = "returned",
                                     !.err = "creating request"]
                      ELSE [g EXCEPT !.pc = "sent",
                                     !.req = setUserAgent(req, client),
                                     !.sent = @ + 1]]
    /\ UNCHANGED <<client, options, called, setterCalls, passed, now, lastCall,
                   encIn, encOut, dc, nm,
                   prevCall, built>>

\* the transport and the server: the round trip fails, or a response with
\* some status and some body comes back
RoundTrip(p) ==
    /\ get[p].pc = "sent"
    /\ \/ get' = [get EXCEPT ![p].pc = "answered", ![p].res.failed = TRUE]
       \/ \E s \in Statuses, b \in Bodies :
            get' = [get EXCEPT ![p].pc = "answered",
                               ![p].res = [failed |-> FALSE, StatusCode |-> s,
                                           Body |-> b]]
    /\ UNCHANGED <<client, options, called, setterCalls, passed, now, lastCall,
                   encIn, encOut, dc, nm,
                   prevCall, built>>

\* no status check at all
statusAccepted_Any(code) == TRUE

\* res.StatusCode != http.StatusOK is the error case
statusAccepted(code) == code = StatusOK

\* the WeatherData filled so far is handed out with the error
decodeFailed_Partial(d) == [wd |-> [nil |-> FALSE, v |-> d.wd],
                            err |-> "decoding response"]

\* return nil, fmt.Errorf("decoding response: %w", err)
decodeFailed(d) == [wd |-> NilWeatherData, err |-> "decoding response"]

\* an error status is tried again: the request goes out once more
errorStatus_Retry(g) ==
    [g EXCEPT !.pc = "sent", !.sent = @ + 1, !.closed = @ + 1,
              !.res = NoResponse]

\* mutant of errorStatus: the body of an error answer is left open
errorStatus_NoClose(g) ==
    [g EXCEPT !.pc = "returned",
              !.err = "server http error: " \o Sprintf(g.res.StatusCode)]

\* mutant of errorStatus: the Options of the caller are reset on an error
errorStatus_ResetsOptions(g) ==
    [g EXCEPT !.pc = "returned", !.closed = @ + 1, !.o = ZeroOptions,
              !.err = "server http error: " \o Sprintf(g.res.StatusCode)]

\* return nil, fmt.Errorf("server http error: %d", res.StatusCode), with the
\* deferred res.Body.Close()
errorStatus(g) ==
    [g EXCEPT !.pc = "returned", !.closed = @ + 1,
              !.err = "server http error: " \o Sprintf(g.res.StatusCode)]

\* the rest of Get, from the return of c.HTTPClient.Do to Get's own return
GetReturn(p) ==
    /\ get[p].pc = "answered"
    /\ LET g == get[p]
           d == decode(g.res.Body)
       IN  get' = [get EXCEPT ![p] =
             IF g.res.failed
             THEN [g EXCEPT !.pc = "returned", !.err = "sending request"]
             ELSE IF ~statusAccepted(g.res.StatusCode)
             THEN errorStatus(g)
             ELSE IF ~d.ok
             THEN [g EXCEPT !.pc = "returned", !.closed = @ + 1,
                            !.decoded = TRUE,
                            !.wd = decodeFailed(d).wd,
                            !.err = decodeFailed(d).err]
             ELSE [g EXCEPT !.pc = "returned", !.closed = @ + 1,
                            !.decoded = TRUE,
                            !.wd = [nil |-> FALSE, v |-> d.wd]]]
    /\ UNCHANGED <<client, options, called, setterCalls, passed, now, lastCall,
                   encIn, encOut, dc, nm,
                   prevCall, built>>

\* c.UserAgent = ua, between calls
SetUserAgent ==
    /\ \A p \in Callers : get[p].pc \in {"idle", "returned"}
    /\ \E ua \in UserAgents :
         /\ ua # client.UserAgent
         /\ client' = [client EXCEPT !.UserAgent = ua]
    /\ UNCHANGED <<options, called, setterCalls, passed, now, lastCall,
                   encIn, encOut, get, dc, nm,
                   prevCall, built>>

----------------------------------------------------------------------------
(* Weather codes *)

\* WeatherCodeMap: WMO weather code -> description
WeatherCodeMap ==
    (0 :> "Clear sky") @@ (1 :> "Mainly clear") @@ (2 :> "Partly cloudy")
    @@ (3 :> "Overcast") @@ (45 :> "Fog") @@ (48 :> "Depositing rime fog")
    @@ (51 :> "Drizzle: Light intensity")
    @@ (53 :> "Drizzle: Moderate intensity")
    @@ (55 :> "Drizzle: Dense intensity")
    @@ (56 :> "Freezing Drizzle: Light intensity")
    @@ (57 :> "Freezing Drizzle: Dense intensity")
    @@ (61 :> "Rain: Slight intensity") @@ (63 :> "Rain: Moderate intensity")
    @@ (65 :> "Rain: Heavy intensity")
    @@ (66 :> "Freezing Rain: Light intensity")
    @@ (67 :> "Freezing Rain: Heavy intensity")
    @@ (71 :> "Snow fall: Slight intensity")
    @@ (73 :> "Snow fall: Moderate intensity")
    @@ (75 :> "Snow fall: Heavy intensity") @@ (77 :> "Snow grains")
    @@ (80 :> "Rain showers: Slight") @@ (81 :> "Rain showers: Moderate")
    @@ (82 :> "Rain showers: Violent") @@ (85 :> "Snow showers: Slight")
    @@ (86 :> "Snow showers: Heavy")
    @@ (95 :> "Thunderstorm: Slight or moderate")
    @@ (96 :> "Thunderstorm with slight hail")
    @@ (99 :> "Thunderstorm with heavy hail")

\* a code outside 0..99 is folded back onto the table
DescribeCode_Modulo(code) ==
    IF code % 100 \in DOMAIN WeatherCodeMap
    THEN WeatherCodeMap[code % 100]
    ELSE "Unknown code"

\* DescribeCode: the description of the code, "Unknown code" if not found
DescribeCode(code) ==
    IF code \in DOMAIN WeatherCodeMap
    THEN WeatherCodeMap[code]
    ELSE "Unknown code"

----------------------------------------------------------------------------
(* NewMetrics and the lists of allowed metrics *)

hourlyMetrics ==
    <<"temperature_2m", "relative_humidity_2m", "dew_point_2m",
       "apparent_temperature", "precipitation_probability", "precipitation",
       "rain", "showers", "snowfall", "snow_depth", "weather_code",
       "pressure_msl", "surface_pressure", "cloud_cover", "cloud_cover_low",
       "cloud_cover_mid", "cloud_cover_high", "evapotranspiration",
       "visibility", "et0_fao_evapotranspiration", "vapour_pressure_deficit",
       "wind_speed_10m", "wind_speed_80m", "wind_speed_120m",
       "wind_speed_180m", "wind_direction_10m", "wind_direction_80m",
       "wind_direction_120m", "wind_direction_180m", "wind_gusts_10m",
       "temperature_80m", "temperature_120m", "temperature_180m",
       "soil_temperature_0cm", "soil_temperature_6cm",
       "soil_temperature_18cm", "soil_temperature_54cm",
       "soil_moisture_0_to_1cm", "soil_moisture_1_to_3cm",
       "soil_moisture_9_to_27cm", "soil_moisture_3_to_9cm" >>

currentMetrics ==
    <<"temperature_2m", "relative_humidity_2m", "is_day",
       "apparent_temperature", "precipitation", "rain", "showers",
       "snowfall", "weather_code", "cloud_cover", "pressure_msl",
       "surface_pressure", "wind_speed_10m", "wind_direction_10m",
       "wind_gusts_10m" >>

dailyMetrics ==
    <<"weather_code", "temperature_2m_max", "temperature_2m_min",
       "apparent_temperature_max", "apparent_temperature_min", "sunrise",
       "sunset", "sunshine_duration", "daylight_duration", "uv_index_max",
       "uv_index_clear_sky_max", "rain_sum", "showers_sum", "snowfall_sum",
       "precipitation_sum", "precipitation_hours",
       "precipitation_probability_max", "wind_speed_10m_max",
       "wind_gusts_10m_max", "wind_direction_10m_dominant",
       "shortwave_radiation_sum", "et0_fao_evapotranspiration" >>

\* slices.Contains
Contains(list, x) == \E i \in 1..Len(list) : list[i] = x

\* index of the first metric that the list does not hold (0: there is none)
FirstInvalid(allowed, ms) ==
    IF \A i \in 1..Len(ms) : Contains(allowed, ms[i]) THEN 0
    ELSE CHOOSE i \in 1..Len(ms) :
            /\ ~Contains(allowed, ms[i])
            /\ \A j \in 1..(i - 1) : Contains(allowed, ms[j])

\* the metrics that are not allowed are left out, without an error
NewMetrics_DropsInvalid(metricType, metrics) ==
    IF metricType \in {"weekly", "monthly"}
    THEN [out |-> metrics, err |-> ""]
    ELSE LET allowed == CASE metricType = "hourly" -> hourlyMetrics
                          [] metricType = "daily" -> dailyMetrics
                          [] metricType = "current" -> currentMetrics
                          [] OTHER -> <<>>
         IN  [out |-> MakeMetrics(SelectSeq(metrics.m,
                                   LAMBDA x : Contains(allowed, x))),
              err |-> ""]

\* NewMetrics(metricType, Metrics...): [out, err], err "" for a nil error.
\* The switch has no default, so an unknown kind leaves allowed nil.
NewMetrics(metricType, metrics) ==
    IF metricType \in {"weekly", "monthly"}
    THEN [out |-> metrics, err |-> ""]
    ELSE LET allowed == CASE metricType = "hourly" -> hourlyMetrics
                          [] metricType = "daily" -> dailyMetrics
                          [] metricType = "current" -> currentMetrics
                          [] OTHER -> <<>>
             bad == FirstInvalid(allowed, metrics.m)
         IN  IF bad # 0
             THEN [out |-> NilMetrics,
                   err |-> "invalid for " \o metricType \o " metrics: "
                               \o metrics.m[bad] \o " "]
             ELSE [out |-> MakeMetrics(metrics.m), err |-> ""]

----------------------------------------------------------------------------
(* The caller: builds Options, then asks for URLs as time passes *)

NoCall == [done |-> FALSE]
NoEncode == [done |-> FALSE, s |-> ""]
NoBuild == [n |-> 0, first |-> BuildRef(ZeroOptions), second |-> BuildRef(ZeroOptions)]
NoDescribe == [done |-> FALSE, code |-> 0, s |-> ""]
NoNewMetrics ==
    [done |-> FALSE, kind |-> "", in |-> NilMetrics, out |-> NilMetrics,
     err |-> ""]

Init ==
    /\ client \in {NewClient} \cup {NewClientWithKey(k) : k \in ApiKeys}
    /\ options = ZeroOptions
    /\ called = {}
    /\ setterCalls = 0
    /\ now = NowInit
    /\ lastCall = NoCall
    /\ encIn = NilMetrics
    /\ encOut = NoEncode
    /\ passed = ZeroOptions
    /\ prevCall = NoCall
    /\ built = NoBuild
    /\ get = [p \in Callers |-> IdleGet]
    /\ dc = NoDescribe
    /\ nm = NoNewMetrics

\* NewOptionsBuilder: a fresh builder for the next request
NewOptionsBuilder ==
    /\ lastCall.done
    /\ options' = ZeroOptions
    /\ called' = {}
    /\ setterCalls' = 0
    /\ lastCall' = NoCall
    /\ passed' = ZeroOptions
    /\ UNCHANGED <<client, now, encIn, encOut, get, dc, nm, prevCall, built>>

\* the wall clock advances by an hour
Tick ==
    /\ now < NowInit + MaxTicks
    /\ now' = now + 1
    /\ UNCHANGED <<client, options, called, setterCalls, lastCall, encIn, encOut,
                   passed, get, dc, nm,
                   prevCall, built>>

\* c.url(o) on the built Options
CallUrl ==
    /\ lastCall' = [done |-> TRUE, c |-> client, o |-> options, now |-> now,
                    set |-> called, u |-> url(client, options, now)]
    /\ UNCHANGED <<client, options, called, setterCalls, now, encIn, encOut,
                   passed, get, dc, nm, prevCall, built>>

Next ==
    \/ Latitude \/ Longitude
    \/ TemperatureUnit \/ WindspeedUnit \/ PrecipitationUnit
    \/ Timezone \/ PastDays \/ ForcastDays \/ Start \/ End \/ Models
    \/ HourlyMetrics \/ DailyMetrics \/ WeeklyMetrics \/ MonthlyMetrics
    \/ CurrentMetrics \/ Seasonal \/ Marine
    \/ NewOptionsBuilder \/ Tick \/ CallUrl

Spec == Init /\ [][Next]_vars

----------------------------------------------------------------------------
(* Client.url called again and again while the clock runs *)

InitRepeat ==
    /\ client \in {NewClient, NewClientWithKey("testkey")}
    /\ options = ZeroOptions
    /\ called = {}
    /\ setterCalls = 0
    /\ now = NowInit
    /\ lastCall = NoCall
    /\ encIn = NilMetrics
    /\ encOut = NoEncode
    /\ passed = ZeroOptions
    /\ prevCall = NoCall
    /\ built = NoBuild
    /\ get = [p \in Callers |-> IdleGet]
    /\ dc = NoDescribe
    /\ nm = NoNewMetrics

\* c.url(o) once more; the call before it is kept for comparison
RepeatUrl ==
    /\ lastCall' = [done |-> TRUE, c |-> client, o |-> options, now |-> now,
                    set |-> called, u |-> url(client, options, now)]
    /\ prevCall' = lastCall
    /\ UNCHANGED <<client, options, called, setterCalls, now, encIn, encOut,
                   passed, get, dc, nm, built>>

NextRepeat ==
    \/ Latitude \/ Longitude
    \/ TemperatureUnit \/ WindspeedUnit \/ PrecipitationUnit
    \/ Timezone \/ PastDays \/ ForcastDays \/ Start \/ End \/ Models
    \/ HourlyMetrics \/ DailyMetrics \/ WeeklyMetrics \/ MonthlyMetrics
    \/ CurrentMetrics \/ Seasonal \/ Marine
    \/ Tick \/ RepeatUrl

SpecRepeat == InitRepeat /\ [][NextRepeat]_vars

----------------------------------------------------------------------------
(* Metrics.encode on its own: every metric list up to MaxMetrics names *)

MetricNames == {"temperature_2m", "rain", "wave_height", "is_day"}

MetricSeqs == UNION {[1..n -> MetricNames] : n \in 0..MaxMetrics}

InitEncode ==
    /\ client = NewClient
    /\ options = ZeroOptions
    /\ called = {}
    /\ setterCalls = 0
    /\ now = NowInit
    /\ lastCall = NoCall
    /\ encIn \in {NilMetrics} \cup {MakeMetrics(s) : s \in MetricSeqs}
    /\ encOut = NoEncode
    /\ passed = ZeroOptions
    /\ prevCall = NoCall
    /\ built = NoBuild
    /\ get = [p \in Callers |-> IdleGet]
    /\ dc = NoDescribe
    /\ nm = NoNewMetrics

\* m.encode()
CallEncode ==
    /\ ~encOut.done
    /\ encOut' = [done |-> TRUE, s |-> encode(encIn)]
    /\ UNCHANGED <<client, options, called, setterCalls, now, lastCall, encIn,
                   passed, get, dc, nm,
                   prevCall, built>>

NextEncode == CallEncode

SpecEncode == InitEncode /\ [][NextEncode]_vars

----------------------------------------------------------------------------
(* The builder on its own: setters and Build calls in any order *)

InitBuilder ==
    /\ client = NewClient
    /\ options = ZeroOptions
    /\ called = {}
    /\ setterCalls = 0
    /\ now = NowInit
    /\ lastCall = NoCall
    /\ encIn = NilMetrics
    /\ encOut = NoEncode
    /\ passed = ZeroOptions
    /\ prevCall = NoCall
    /\ built = NoBuild
    /\ get = [p \in Callers |-> IdleGet]
    /\ dc = NoDescribe
    /\ nm = NoNewMetrics

NextBuilder ==
    \/ Latitude \/ Longitude
    \/ TemperatureUnit \/ WindspeedUnit \/ PrecipitationUnit
    \/ Timezone \/ PastDays \/ ForcastDays \/ Start \/ End \/ Models
    \/ HourlyMetrics \/ DailyMetrics \/ WeeklyMetrics \/ MonthlyMetrics
    \/ CurrentMetrics \/ Seasonal \/ Marine
    \/ CallBuild

SpecBuilder == InitBuilder /\ [][NextBuilder]_vars

----------------------------------------------------------------------------
(* Get on a shared client: callers send requests, the server answers *)

InitGet ==
    /\ client \in GetClients
    /\ options = ZeroOptions
    /\ called = {}
    /\ setterCalls = 0
    /\ now = NowInit
    /\ lastCall = NoCall
    /\ encIn = NilMetrics
    /\ encOut = NoEncode
    /\ passed = ZeroOptions
    /\ prevCall = NoCall
    /\ built = NoBuild
    /\ get = [p \in Callers |-> IdleGet]
    /\ dc = NoDescribe
    /\ nm = NoNewMetrics

NextGet ==
    \/ \E p \in Callers : GetSend(p)
    \/ \E p \in Callers : RoundTrip(p)
    \/ \E p \in Callers : GetReturn(p)
    \/ SetUserAgent

SpecGet == InitGet /\ [][NextGet]_vars

----------------------------------------------------------------------------
(* DescribeCode on its own: every code from below zero to above 99 *)

CodeMargin == 20

Codes == (0 - CodeMargin)..(99 + CodeMargin)

InitDescribe ==
    /\ client = NewClient
    /\ options = ZeroOptions
    /\ called = {}
    /\ setterCalls = 0
    /\ now = NowInit
    /\ lastCall = NoCall
    /\ encIn = NilMetrics
    /\ encOut = NoEncode
    /\ passed = ZeroOptions
    /\ prevCall = NoCall
    /\ built = NoBuild
    /\ get = [p \in Callers |-> IdleGet]
    /\ dc \in {[NoDescribe EXCEPT !.code = c] : c \in Codes}
    /\ nm = NoNewMetrics

\* DescribeCode(code)
CallDescribeCode ==
    /\ ~dc.done
    /\ dc' = [dc EXCEPT !.done = TRUE, !.s = DescribeCode(dc.code)]
    /\ UNCHANGED <<client, options, called, setterCalls, now, lastCall, encIn,
                   encOut, passed, get, nm,
                   prevCall, built>>

NextDescribe == CallDescribeCode

SpecDescribe == InitDescribe /\ [][NextDescribe]_vars

----------------------------------------------------------------------------
(* NewMetrics on its own: every kind with every list up to MaxMetrics names *)

Kinds == {"hourly", "daily", "weekly", "monthly", "current", "yearly", ""}

NewMetricsNames ==
    {"temperature_2m", "weather_code", "temperature_2m_max", "wave_height"}

\* the variadic argument: nil when no metric is passed
NewMetricsInputs ==
    {NilMetrics} \cup
    {MakeMetrics(s) : s \in UNION {[1..n -> NewMetricsNames] : n \in 0..MaxMetrics}}

InitNewMetrics ==
    /\ client = NewClient
    /\ options = ZeroOptions
    /\ called = {}
    /\ setterCalls = 0
    /\ now = NowInit
    /\ lastCall = NoCall
    /\ encIn = NilMetrics
    /\ encOut = NoEncode
    /\ passed = ZeroOptions
    /\ prevCall = NoCall
    /\ built = NoBuild
    /\ get = [p \in Callers |-> IdleGet]
    /\ dc = NoDescribe
    /\ nm \in {[NoNewMetrics EXCEPT !.kind = k, !.in = ms] :
                   k \in Kinds, ms \in NewMetricsInputs}

\* NewMetrics(kind, metrics...)
CallNewMetrics ==
    /\ ~nm.done
    /\ nm' = [nm EXCEPT !.done = TRUE,
                        !.out = NewMetrics(nm.kind, nm.in).out,
                        !.err = NewMetrics(nm.kind, nm.in).err]
    /\ UNCHANGED <<client, options, called, setterCalls, now, lastCall, encIn,
                   encOut, passed, get, dc,
                   prevCall, built>>

NextNewMetrics == CallNewMetrics

SpecNewMetrics == InitNewMetrics /\ [][NextNewMetrics]_vars

----------------------------------------------------------------------------
(* Vocabulary of the properties *)

HasPrefix(str, p) == Len(str) >= Len(p) /\ SubSeq(str, 1, Len(p)) = p

\* the keys of an encoded query, in the order they appear
Keys(raw) == [i \in 1..Len(raw) |-> raw[i][1]]

HasKey(raw, k) == \E i \in 1..Len(raw) : raw[i][1] = k

KeyCount(raw, k) == Cardinality({i \in 1..Len(raw) : raw[i][1] = k})

\* the (escaped) value written for key k
ValueOf(raw, k) == raw[CHOOSE i \in 1..Len(raw) : raw[i][1] = k][2]

\* url.QueryUnescape: %2C read back as ','
RECURSIVE QueryUnescape(_)
QueryUnescape(str) ==
    IF Len(str) = 0 THEN ""
    ELSE IF Len(str) >= 3 /\ SubSeq(str, 1, 3) = "%2C"
         THEN "," \o QueryUnescape(SubSeq(str, 4, Len(str)))
         ELSE SubSeq(str, 1, 1) \o QueryUnescape(SubSeq(str, 2, Len(str)))

\* strings.Split(str, ","), with no entry for the empty string
RECURSIVE SplitFrom(_, _, _)
SplitFrom(str, i, cur) ==
    IF i > Len(str) THEN <<cur>>
    ELSE IF SubSeq(str, i, i) = ","
         THEN <<cur>> \o SplitFrom(str, i + 1, "")
         ELSE SplitFrom(str, i + 1, cur \o SubSeq(str, i, i))

Split(str) == IF str = "" THEN <<>> ELSE SplitFrom(str, 1, "")

\* the age of the start date at time t, and whether it is past the threshold
Age(o, t) == t - o.Start
OldStart(o, t) == o.Start # ZeroTime /\ Age(o, t) > 90 * 24

\* the request asks for the seasonal API
SeasonalRequested(o) ==
    \/ o.Seasonal
    \/ o.Models # <<>>
    \/ o.WeeklyMetrics.m # <<>>
    \/ o.MonthlyMetrics.m # <<>>

ArchiveHosts == {"archive-api.open-meteo.com", "customer-archive-api.open-meteo.com"}
ForecastHosts == {"api.open-meteo.com", "customer-api.open-meteo.com"}
SeasonalHosts == {"seasonal-api.open-meteo.com", "customer-seasonal-api.open-meteo.com"}
MarineHosts == {"marine-api.open-meteo.com", "customer-marine-api.open-meteo.com"}

RoutedToArchive(u) == u.Host \in ArchiveHosts /\ u.Path = "/v1/archive"
RoutedToForecast(u) == u.Host \in ForecastHosts /\ u.Path = "/v1/forecast"
RoutedToSeasonal(u) == u.Host \in SeasonalHosts /\ u.Path = "/v1/seasonal"
RoutedToMarine(u) == u.Host \in MarineHosts /\ u.Path = "/v1/marine"

----------------------------------------------------------------------------
(* C1 *)

----------------------------------------------------------------------------
(* C2 *)

\* the host of a product line, told by the path of the URL
LineHost(path) ==
    CASE path = "/v1/forecast" -> "api.open-meteo.com"
      [] path = "/v1/archive" -> "archive-api.open-meteo.com"
      [] path = "/v1/seasonal" -> "seasonal-api.open-meteo.com"
      [] path = "/v1/marine" -> "marine-api.open-meteo.com"

\* C2: with a non-empty API key the host of every URL is the host of the
\* selected product line (forecast, archive, seasonal, marine) with
\* "customer-" in front of it, outside the archive prefix.
C2_CustomerPrefix ==
    (lastCall.done /\ lastCall.c.apiKey # "") =>
        lastCall.u.Host = "customer-" \o LineHost(lastCall.u.Path)

C2_Witness ==
    /\ lastCall.done
    /\ lastCall.c.apiKey = "testkey"
    /\ lastCall.u.Path = "/v1/archive"
    /\ lastCall.u.Host = "customer-archive-api.open-meteo.com"

----------------------------------------------------------------------------
(* C3 *)

\* C3: in every URL the API key is non-empty exactly when the host carries
\* the "customer-" prefix and exactly when the query has an apikey key, whose
\* value is then the configured key; with an empty key there is neither.
C3_KeyPrefixAndParam ==
    lastCall.done =>
        LET keyed == lastCall.c.apiKey # ""
            raw == lastCall.u.RawQuery
        IN  /\ keyed <=> HasPrefix(lastCall.u.Host, "customer-")
            /\ keyed <=> HasKey(raw, "apikey")
            /\ keyed => /\ KeyCount(raw, "apikey") = 1
                        /\ QueryUnescape(ValueOf(raw, "apikey")) = lastCall.c.apiKey

C3_Witness ==
    /\ lastCall.done
    /\ lastCall.c.apiKey = "k,1"
    /\ HasPrefix(lastCall.u.Host, "customer-")
    /\ HasKey(lastCall.u.RawQuery, "apikey")

----------------------------------------------------------------------------
(* C4 *)

OnlyLatLon(o) ==
    o = [ZeroOptions EXCEPT !.Latitude = o.Latitude, !.Longitude = o.Longitude]

\* C4: for Options in which only latitude and longitude are set, and a client
\* without API key, the encoded query holds exactly the two keys latitude and
\* longitude, in that order.
C4_OnlyLatLon ==
    (lastCall.done /\ lastCall.c.apiKey = "" /\ OnlyLatLon(lastCall.o)) =>
        Keys(lastCall.u.RawQuery) = <<"latitude", "longitude">>

C4_Witness ==
    /\ lastCall.done
    /\ lastCall.c.apiKey = ""
    /\ OnlyLatLon(lastCall.o)
    /\ lastCall.o.Latitude = 52 /\ lastCall.o.Longitude = 13
    /\ lastCall.u.RawQuery = << <<"latitude", "52">>, <<"longitude", "13">> >>

----------------------------------------------------------------------------
(* C5 *)

\* one unit field: set by its setter, the query has exactly one key for it,
\* holding the unit's canonical string; not set, the query has no such key
UnitKeyWritten(call, field, key, canonical) ==
    IF field \in call.set
    THEN /\ KeyCount(call.u.RawQuery, key) = 1
         /\ ValueOf(call.u.RawQuery, key) = canonical
    ELSE ~HasKey(call.u.RawQuery, key)

CanonicalTemperature(t) == IF t = Celsius THEN "celsius" ELSE "fahrenheit"
CanonicalWindSpeed(w) ==
    IF w = KMH THEN "kmh" ELSE IF w = MS THEN "ms"
    ELSE IF w = MPH THEN "mph" ELSE "kn"
CanonicalPrecipitation(p) == IF p = MM THEN "mm" ELSE "in"

\* C5: for each of the three unit fields and every unit value the library
\* defines, setting the field adds exactly one query key (temperature_unit,
\* windspeed_unit, precipitation_unit) with the unit's canonical string;
\* leaving the field unset adds no such key.
C5_UnitKeys ==
    lastCall.done =>
        /\ UnitKeyWritten(lastCall, "TemperatureUnit", "temperature_unit",
                          CanonicalTemperature(lastCall.o.TemperatureUnit))
        /\ UnitKeyWritten(lastCall, "WindspeedUnit", "windspeed_unit",
                          CanonicalWindSpeed(lastCall.o.WindspeedUnit))
        /\ UnitKeyWritten(lastCall, "PrecipitationUnit", "precipitation_unit",
                          CanonicalPrecipitation(lastCall.o.PrecipitationUnit))

----------------------------------------------------------------------------
(* C6 *)

\* C6: Metrics.encode returns the metric names joined by commas in exactly
\* the order supplied: split at the commas, the output is the input sequence
\* again, entry for entry (same length, duplicates kept, nothing sorted); a
\* nil or empty list encodes to the empty string.
C6_EncodeKeepsOrder ==
    encOut.done =>
        /\ Split(encOut.s) = encIn.m
        /\ Len(Split(encOut.s)) = Len(encIn.m)
        /\ (encIn.m = <<>> <=> encOut.s = "")

C6_Witness ==
    /\ encOut.done
    /\ encIn.m = <<"temperature_2m", "rain", "temperature_2m">>
    /\ encOut.s = "temperature_2m,rain,temperature_2m"

----------------------------------------------------------------------------
(* C7 *)

\* o with every metric set taken away
WithoutMetrics(o) ==
    [o EXCEPT !.HourlyMetrics = NilMetrics, !.DailyMetrics = NilMetrics,
              !.WeeklyMetrics = NilMetrics, !.MonthlyMetrics = NilMetrics,
              !.CurrentMetrics = NilMetrics]

\* o with the hourly, daily and current metric sets taken away
WithoutForecastMetrics(o) ==
    [o EXCEPT !.HourlyMetrics = NilMetrics, !.DailyMetrics = NilMetrics,
              !.CurrentMetrics = NilMetrics]

SameRoute(u1, u2) == u1.Host = u2.Host /\ u1.Path = u2.Path

----------------------------------------------------------------------------
(* C8 *)

\* the key of a list-valued option: written exactly when the list is not
\* empty, and then it holds the list, comma-joined
ListKeyWritten(raw, key, list) ==
    IF list # <<>>
    THEN /\ KeyCount(raw, key) = 1
         /\ Split(QueryUnescape(ValueOf(raw, key))) = list
    ELSE ~HasKey(raw, key)

SeasonalKeysWritten(call) ==
    /\ ListKeyWritten(call.u.RawQuery, "models", call.o.Models)
    /\ ListKeyWritten(call.u.RawQuery, "weekly", call.o.WeeklyMetrics.m)
    /\ ListKeyWritten(call.u.RawQuery, "monthly", call.o.MonthlyMetrics.m)

----------------------------------------------------------------------------
(* C9 *)

----------------------------------------------------------------------------
(* C10 *)

----------------------------------------------------------------------------
(* Vocabulary of the properties about Get *)

Is2xx(code) == code >= 200 /\ code <= 299

\* the call of caller p has returned
Returned(p) == get[p].pc = "returned"

\* the call has returned after the transport handed it a response
GotResponse(p) == Returned(p) /\ get[p].req.built /\ ~get[p].res.failed

Decodable(body) == decode(body).ok

\* the array and the unit string WeatherData holds for a metric of an
\* interval; nothing where the interval's struct has no such field
ArrayOf(wd, interval, metric) ==
    IF metric \in DOMAIN wd.Data[interval].Values
    THEN wd.Data[interval].Values[metric]
    ELSE <<>>

UnitOf(wd, interval, metric) ==
    IF metric \in DOMAIN wd.Units[interval]
    THEN wd.Units[interval][metric]
    ELSE ""

----------------------------------------------------------------------------
\* C11: whenever the server answers a Get with a non-2xx status, Get returns
\* the error "server http error: <code>" and no WeatherData, and the
\* response body is never decoded.
C11_ErrorStatus ==
    \A p \in Callers :
        (GotResponse(p) /\ ~Is2xx(get[p].res.StatusCode)) =>
            /\ get[p].err = "server http error: " \o FormatNat(get[p].res.StatusCode)
            /\ get[p].wd.nil
            /\ ~get[p].decoded

\* a 404 that carries a body the decoder would accept has been turned into
\* the error
C11_Witness ==
    \E p \in Callers :
        /\ GotResponse(p)
        /\ get[p].res.StatusCode = 404
        /\ Decodable(get[p].res.Body)
        /\ get[p].err = "server http error: 404"

----------------------------------------------------------------------------
\* C12: Get fails in exactly three situations: the request cannot be
\* constructed, the transport fails or the status is not 2xx, or the body
\* fails to decode; in every other case, so for every 2xx status with a
\* decodable body, Get returns the decoded WeatherData and a nil error.
C12_FailsInThreeCasesOnly ==
    \A p \in Callers :
        Returned(p) =>
            LET g == get[p]
                fails == \/ ~g.req.built
                         \/ g.res.failed
                         \/ ~Is2xx(g.res.StatusCode)
                         \/ ~Decodable(g.res.Body)
            IN  /\ (g.err # "") <=> fails
                /\ ~fails => g.wd = [nil |-> FALSE, v |-> decode(g.res.Body).wd]

----------------------------------------------------------------------------
\* C13: every Get call ends with exactly one of its two results set: a
\* non-nil WeatherData with a nil error, or a nil WeatherData with a non-nil
\* error; no partially filled WeatherData is returned on any failure.
C13_OneResult ==
    \A p \in Callers :
        Returned(p) =>
            /\ get[p].wd.nil <=> get[p].err # ""
            /\ get[p].wd.nil => get[p].wd.v = ZeroWeatherData

\* a decode failure after the decoder had already filled part of the
\* WeatherData: Get returns nil and the error
C13_Witness ==
    \E p \in Callers :
        /\ GotResponse(p)
        /\ get[p].decoded
        /\ ~Decodable(get[p].res.Body)
        /\ decode(get[p].res.Body).wd # ZeroWeatherData
        /\ get[p].wd.nil
        /\ get[p].err = "decoding response"

----------------------------------------------------------------------------
\* C14: each Get invocation sends at most one outbound request: exactly one
\* when the request is constructed, none when construction fails, and none
\* after a transport error, an error status or a decode failure; a later
\* call starts with nothing of the earlier one and sends its own request.
C14_OneRequestPerCall ==
    [][\A p \in Callers :
          /\ get'[p].sent <= 1
          /\ (get[p].pc \in {"idle", "returned"} /\ get'[p] # get[p]) =>
                /\ get'[p].sent = (IF get'[p].req.built THEN 1 ELSE 0)
                /\ get'[p].res = NoResponse
                /\ get'[p].wd.nil
          /\ get[p].pc \in {"sent", "answered"} =>
                get'[p].sent = get[p].sent]_vars

\* both callers have come back with an error, one from the status and one
\* from the decoder, and each has sent its one request
C14_Witness ==
    /\ GotResponse("a") /\ GotResponse("b")
    /\ get["a"].res.StatusCode = 404 /\ get["a"].err # ""
    /\ get["b"].decoded /\ get["b"].err # ""
    /\ get["a"].sent = 1 /\ get["b"].sent = 1

----------------------------------------------------------------------------
----------------------------------------------------------------------------
\* C16: DescribeCode is total: for every key of WeatherCodeMap it returns
\* that key's description, and for every other integer, negative ones and
\* codes above 99 included, it returns "Unknown code".
KnownCodes ==
    {0, 1, 2, 3, 45, 48, 51, 53, 55, 56, 57, 61, 63, 65, 66, 67, 71, 73, 75,
     77, 80, 81, 82, 85, 86, 95, 96, 99}

C16_DescribeCodeTotal ==
    /\ DOMAIN WeatherCodeMap = KnownCodes
    /\ dc.done =>
          IF dc.code \in KnownCodes
          THEN dc.s = WeatherCodeMap[dc.code] /\ dc.s # "Unknown code"
          ELSE dc.s = "Unknown code"

\* a code above 99 whose last two digits are a known code
C16_Witness == dc.done /\ dc.code = 103 /\ dc.s = "Unknown code"

----------------------------------------------------------------------------
\* C17: each setter changes exactly the field it is named after, so after
\* any sequence of setter calls Build returns Options in which each field
\* equals the last value passed to its setter, and the zero value if the
\* setter was never called, whatever the order of the calls.
C17_BuildReturnsLastValues ==
    \A f \in DOMAIN ZeroOptions :
        /\ Build[f] = passed[f]
        /\ f \notin called => Build[f] = ZeroOptions[f]

\* two different setters have been called, and both values are in place
C17_Witness ==
    /\ setterCalls = 2
    /\ called = {"Timezone", "HourlyMetrics"}
    /\ Build.Timezone = "UTC"
    /\ Build.HourlyMetrics = MakeMetrics(<<"rain", "temperature_2m">>)

----------------------------------------------------------------------------
\* C18: every request Get sends is a GET whose User-Agent header equals the
\* Client's UserAgent field at the time of the call; a client from NewClient
\* or NewClientWithKey has "OpenMeteoGo-Client" there.
C18_GetWithUserAgent ==
    /\ \A c \in {NewClient} \cup {NewClientWithKey(k) : k \in ApiKeys} :
          c.UserAgent = "OpenMeteoGo-Client"
    /\ \A p \in Callers :
          get[p].sent > 0 =>
              /\ get[p].req.Method = "GET"
              /\ get[p].req.UserAgent = get[p].c.UserAgent

\* a request went out after the caller had set its own agent name
C18_Witness ==
    \E p \in Callers :
        /\ get[p].sent = 1
        /\ get[p].req.UserAgent = "my-app/1.0"

----------------------------------------------------------------------------
\* C19: NewMetrics returns an error, and no Metrics, for every kind string
\* other than "hourly", "daily", "weekly", "monthly" and "current",
\* whatever metrics are passed, also when none is passed.
C19_UnknownKindRejected ==
    (nm.done /\ nm.kind \notin {"hourly", "daily", "weekly", "monthly", "current"}) =>
        nm.err # "" /\ nm.out.nil

----------------------------------------------------------------------------
\* C20: for "hourly", "daily" and "current", NewMetrics returns an error and
\* a nil Metrics exactly when some passed metric is not in the kind's
\* allowed list, and otherwise a nil error with the passed metrics in the
\* same order and length; for "weekly" and "monthly" every metric is
\* accepted and the list comes back unchanged.
AllowedSet(kind) ==
    LET list == CASE kind = "hourly" -> hourlyMetrics
                  [] kind = "daily" -> dailyMetrics
                  [] kind = "current" -> currentMetrics
    IN  {list[i] : i \in 1..Len(list)}

C20_AllowedListDecides ==
    nm.done =>
        CASE nm.kind \in {"hourly", "daily", "current"} ->
                 IF \E i \in 1..Len(nm.in.m) : nm.in.m[i] \notin AllowedSet(nm.kind)
                 THEN nm.err # "" /\ nm.out = NilMetrics
                 ELSE nm.err = "" /\ ~nm.out.nil /\ nm.out.m = nm.in.m
          [] nm.kind \in {"weekly", "monthly"} ->
                 nm.err = "" /\ nm.out = nm.in
          [] OTHER -> TRUE

\* two daily metrics, one of them daily only, come back in the order passed
C20_Witness ==
    /\ nm.done
    /\ nm.kind = "daily"
    /\ nm.in.m = <<"temperature_2m_max", "weather_code">>
    /\ nm.err = ""
    /\ nm.out.m = <<"temperature_2m_max", "weather_code">>


----------------------------------------------------------------------------
(* C21 *)

\* the times of the model, and the Options of a url call
Times == NowInit..(NowInit + MaxTicks)

\* two url calls with the same Client and the same Options
SameInputs(a, b) == a.done /\ b.done /\ a.c = b.c /\ a.o = b.o

\* C21: url is deterministic.  Two calls with the same Client configuration
\* and the same Options give the same URL when they are made at the same
\* time, or at two times that compare alike with the threshold of the start
\* date; whatever happened between the two calls (setter calls, other url
\* calls) does not matter.  The URL of a call is also the URL the call would
\* give at every other time that compares alike.
C21_UrlDeterministic ==
    /\ (SameInputs(prevCall, lastCall)
        /\ (OldStart(prevCall.o, prevCall.now) <=> OldStart(lastCall.o, lastCall.now)))
       => prevCall.u = lastCall.u
    /\ lastCall.done =>
         \A t \in Times :
            (OldStart(lastCall.o, t) <=> OldStart(lastCall.o, lastCall.now))
               => url(lastCall.c, lastCall.o, t) = lastCall.u

\* two calls with a recent start date, an hour apart, gave the same URL
C21_Witness ==
    /\ SameInputs(prevCall, lastCall)
    /\ prevCall.now # lastCall.now
    /\ lastCall.o.Start = StartRecent
    /\ prevCall.u = lastCall.u

----------------------------------------------------------------------------
(* C24 *)

\* a metric set with at least one metric
NonEmpty(metrics) == ~metrics.nil /\ Len(metrics.m) > 0

----------------------------------------------------------------------------
(* C25 *)

\* the characters of the query keys, in byte order ('_' is below the letters)
Alphabet == "_abcdefghijklmnopqrstuvwxyz"

Rank(ch) == CHOOSE i \in 1..Len(Alphabet) : SubSeq(Alphabet, i, i) = ch

\* a < b for two strings, as Go compares them
RECURSIVE Less(_, _)
Less(a, b) ==
    IF Len(b) = 0 THEN FALSE
    ELSE IF Len(a) = 0 THEN TRUE
    ELSE LET ra == Rank(SubSeq(a, 1, 1))
             rb == Rank(SubSeq(b, 1, 1))
         IN  IF ra # rb THEN ra < rb
             ELSE Less(SubSeq(a, 2, Len(a)), SubSeq(b, 2, Len(b)))

\* C25: in every URL the keys of the query are in strictly ascending
\* lexicographic order, so that no key occurs twice, whatever the order of
\* the setter calls was; in that order apikey < latitude < longitude < models
\* < monthly < weekly, and hourly and daily are before latitude.
C25_KeysAscending ==
    lastCall.done =>
        LET keys == Keys(lastCall.u.RawQuery)
        IN  /\ \A i, j \in 1..Len(keys) : i < j => Less(keys[i], keys[j])
            /\ \A k \in {"apikey", "latitude", "longitude", "models", "monthly",
                         "weekly", "hourly", "daily"} :
                  KeyCount(lastCall.u.RawQuery, k) <= 1
            /\ Less("apikey", "latitude") /\ Less("latitude", "longitude")
            /\ Less("longitude", "models") /\ Less("models", "monthly")
            /\ Less("monthly", "weekly")
            /\ Less("hourly", "latitude") /\ Less("daily", "latitude")

\* a customer request with hourly metrics and models
C25_Witness ==
    /\ lastCall.done
    /\ Keys(lastCall.u.RawQuery)
          = <<"apikey", "hourly", "latitude", "longitude", "models">>

----------------------------------------------------------------------------
(* C26 *)

\* the host without the customer- prefix
BareHost(host) ==
    IF HasPrefix(host, "customer-") THEN SubSeq(host, 10, Len(host)) ELSE host

\* C26: host and path of every URL are of one product line: the archive-
\* prefix with the path /v1/archive and with no other, the seasonal host with
\* /v1/seasonal, the marine host with /v1/marine, the plain forecast host
\* (behind customer- or not) with /v1/forecast.
C26_HostAndPathAgree ==
    lastCall.done =>
        LET host == BareHost(lastCall.u.Host)
            path == lastCall.u.Path
        IN  /\ HasPrefix(host, "archive-") <=> path = "/v1/archive"
            /\ host = "seasonal-api.open-meteo.com" <=> path = "/v1/seasonal"
            /\ host = "marine-api.open-meteo.com" <=> path = "/v1/marine"
            /\ host = "api.open-meteo.com" <=> path = "/v1/forecast"
            /\ path \in {"/v1/archive", "/v1/seasonal", "/v1/marine", "/v1/forecast"}

\* a customer request for historical data
C26_Witness ==
    /\ lastCall.done
    /\ lastCall.u.Host = "customer-archive-api.open-meteo.com"
    /\ lastCall.u.Path = "/v1/archive"

----------------------------------------------------------------------------
(* C27 *)

\* C27: for one Client and one Options with a start date, of two url calls
\* the later is routed as the earlier, or the earlier to the forecast
\* endpoint and the later to the archive endpoint: a call after an archive
\* call is an archive call.
C27_ForecastToArchiveOnly ==
    (SameInputs(prevCall, lastCall) /\ ~IsZero(lastCall.o.Start)
     /\ prevCall.now <= lastCall.now) =>
        /\ RoutedToArchive(prevCall.u) => RoutedToArchive(lastCall.u)
        /\ \/ /\ prevCall.u.Host = lastCall.u.Host
              /\ prevCall.u.Path = lastCall.u.Path
           \/ /\ RoutedToForecast(prevCall.u)
              /\ RoutedToArchive(lastCall.u)

\* the start date passed the threshold between the two calls
C27_Witness ==
    /\ SameInputs(prevCall, lastCall)
    /\ lastCall.o.Start = StartEdge
    /\ RoutedToForecast(prevCall.u)
    /\ RoutedToArchive(lastCall.u)

----------------------------------------------------------------------------
(* C28 *)

----------------------------------------------------------------------------
(* C22 *)

\* the request and the result of a Get call that runs with no other call
\* beside it: Client c, Options o, time t, and res from the transport
AloneRequest(c, o, t) ==
    [built |-> TRUE, Method |-> "GET", URL |-> url(c, o, t),
     UserAgent |-> c.UserAgent]

AloneResult(c, o, t, res) ==
    IF ~validURL(url(c, o, t))
    THEN [wd |-> NilWeatherData, err |-> "creating request"]
    ELSE IF res.failed
    THEN [wd |-> NilWeatherData, err |-> "sending request"]
    ELSE IF res.StatusCode # StatusOK
    THEN [wd |-> NilWeatherData,
          err |-> "server http error: " \o Sprintf(res.StatusCode)]
    ELSE IF ~Decodable(res.Body)
    THEN [wd |-> NilWeatherData, err |-> "decoding response"]
    ELSE [wd |-> [nil |-> FALSE, v |-> decode(res.Body).wd], err |-> ""]

InFlight(p) == get[p].pc \in {"sent", "answered"}

\* C22: with several callers inside Get on one Client, each with its own
\* Options, in every interleaving each call sends the request it would send
\* alone (the URL of its own Options) and returns the result it would return
\* alone for the response it was given.
C22_ConcurrentAsAlone ==
    \A p \in Callers :
        /\ (InFlight(p) \/ (Returned(p) /\ get[p].req.built)) =>
              get[p].req = AloneRequest(get[p].c, GetOptions[p], now)
        /\ Returned(p) =>
              [wd |-> get[p].wd, err |-> get[p].err]
                 = AloneResult(get[p].c, GetOptions[p], now, get[p].res)

\* both calls are inside Get at once, sent to different URLs and given
\* different answers
C22_Witness ==
    /\ InFlight("a") /\ InFlight("b")
    /\ get["a"].pc = "answered" /\ get["b"].pc = "answered"
    /\ get["a"].req.URL # get["b"].req.URL
    /\ get["a"].res # get["b"].res
    /\ get["a"].req.URL.Path = "/v1/forecast"
    /\ get["b"].req.URL.Path = "/v1/marine"

----------------------------------------------------------------------------
(* C23 *)

\* a step of the Get call of caller p
GetStep(p) == get'[p] # get[p]

\* C23: no step of a Get call (the url call in it included) changes the
\* Client (API key, user agent, scheme, host, transport handle) or a field
\* of the Options the caller passed.
C23_GetLeavesInputs ==
    [][\A p \in Callers :
          GetStep(p) =>
             /\ client' = client
             /\ get'[p].c = client
             /\ get'[p].o = GetOptions[p]]_vars

\* both callers are back from Get, one of them with an error, and Client and
\* Options are as they were passed
C23_Witness ==
    /\ Returned("a") /\ Returned("b")
    /\ get["a"].err # "" /\ get["b"].err = ""
    /\ get["a"].res.StatusCode = 404
    /\ get["a"].o = GetOptions["a"] /\ get["b"].o = GetOptions["b"]
    /\ get["a"].c = client /\ get["b"].c = client
    /\ client.HTTPClient = "http.DefaultClient"

----------------------------------------------------------------------------
(* C29 *)

\* C29: a Get call that was handed a response by the transport has closed
\* the body exactly once when it returns, on each path (error status, decode
\* failure, success); a call whose request could not be built or whose
\* transport failed has closed nothing; nothing is closed before the return.
C29_BodyClosedOnce ==
    \A p \in Callers :
        /\ GotResponse(p) => get[p].closed = 1
        /\ (Returned(p) /\ ~GotResponse(p)) => get[p].closed = 0
        /\ ~Returned(p) => get[p].closed = 0

\* one call back with an error status, the other after a transport failure
C29_Witness ==
    /\ GotResponse("a")
    /\ get["a"].res.StatusCode = 404
    /\ get["a"].closed = 1
    /\ Returned("b")
    /\ get["b"].res.failed
    /\ get["b"].closed = 0

----------------------------------------------------------------------------
(* C30 *)

\* C30: Build does not copy.  What a Build call returned is the builder's
\* own Options: it reads as the builder's settings read now, setter calls
\* made after the Build included, and two Build calls on one builder return
\* the same object.
C30_BuildReturnsTheSameObject ==
    /\ built.n >= 1 => Deref(built.first) = options
    /\ built.n = 2 =>
          /\ built.first.obj = built.second.obj
          /\ Deref(built.first) = Deref(built.second)

\* Build, a setter, Build, and one more setter: the Options of each Build
\* call read differently from what they read when they were returned
C30_Witness ==
    /\ built.n = 2
    /\ built.first.v # built.second.v
    /\ built.second.v # options
    /\ Deref(built.first) = options

=============================================================================
